---- MODULE Spec2Model ----
(***************************************************************************)
(* Model of BoundingBoxTree (mesh_query0.1/bounding_box_tree.h): the       *)
(* construction of a bounding volume hierarchy from an array of leaf       *)
(* boxes, and its teardown.                                                *)
(*                                                                         *)
(* A double is modelled as a binary floating-point number with Precision   *)
(* significant bits, rounded to nearest, ties to even; a value is held as  *)
(* a natural number of units of 2^-Frac.  The heap is a function from      *)
(* addresses to node objects; operator new returns the lowest free address.*)
(***************************************************************************)
EXTENDS Integers, Sequences, FiniteSets, TLC

\* ------------------------------------------------------------ bounds
\* significant bits of the floating-point format standing for double
Precision == 4
\* binary digits after the point of the smallest unit of the format
Frac == 6
\* largest number n of input boxes
MaxN == 3
\* max_depth arguments 0..MaxDepthArg are tried, next to the default
MaxDepthArg == 2
\* boxes_per_leaf arguments 1..MaxBoxesPerLeaf are tried
MaxBoxesPerLeaf == 2

\* default arguments of construct_from_leaf_boxes
DefaultMaxDepth == 30
DefaultBoxesPerLeaf == 1

\* ------------------------------------------------------------ double
RECURSIVE Pow2(_)
Pow2(k) == IF k = 0 THEN 1 ELSE 2 * Pow2(k - 1)

\* the double 1.0, in units
One == Pow2(Frac)
\* the first number that needs more than Precision significant bits
SignificandEnd == Pow2(Precision)

\* the whole number r, as a double
D(r) == r * One

\* distance between neighbouring doubles around the magnitude x
RECURSIVE SpacingFrom(_, _)
SpacingFrom(x, s) == IF x < SignificandEnd * s THEN s ELSE SpacingFrom(x, 2 * s)

\* the double nearest to num/den units, ties to the even significand
RoundRatio(num, den) ==
    LET s == SpacingFrom(num \div den, 1)
        d == den * s
        q == num \div d
        r == num % d
    IN  s * (IF 2 * r < d THEN q
             ELSE IF 2 * r > d THEN q + 1
             ELSE IF q % 2 = 0 THEN q ELSE q + 1)

\* a + b on doubles
FAdd(a, b) == RoundRatio(a + b, 1)
\* a - b on doubles, a >= b
FSub(a, b) == RoundRatio(a - b, 1)
\* a * b on doubles
FMul(a, b) == RoundRatio(a * b, One)
\* 1. / k for an unsigned k >= 1
FRecip(k) == RoundRatio(One, k)
\* the constant 0.5
Half == One \div 2

\* ------------------------------------------------------------ Vec3d, BoundingBox
Axes == 0..2

Min(a, b) == IF a <= b THEN a ELSE b
Max(a, b) == IF a >= b THEN a ELSE b

\* Vec3d operator+ and operator+=
VecAdd(u, v) == [a \in Axes |-> FAdd(u[a], v[a])]
\* double * Vec3d and Vec3d operator*=
VecScale(c, u) == [a \in Axes |-> FMul(c, u[a])]

\* BoundingBox(const Vec3d&): the box holding one point
PointBox(p) == [xmin |-> p, xmax |-> p]
\* BoundingBox::include_point
IncludePoint(b, p) ==
    [xmin |-> [a \in Axes |-> Min(b.xmin[a], p[a])],
     xmax |-> [a \in Axes |-> Max(b.xmax[a], p[a])]]
\* BoundingBox::include_box
IncludeBox(b, c) ==
    [xmin |-> [a \in Axes |-> Min(b.xmin[a], c.xmin[a])],
     xmax |-> [a \in Axes |-> Max(b.xmax[a], c.xmax[a])]]
\* BoundingBox(): the box of a node nothing was built in
DefaultBox == PointBox([a \in Axes |-> 0])

\* ------------------------------------------------------------ input
\* the real point (x, y, z), as a Vec3d
Vec(x, y, z) == (0 :> D(x)) @@ (1 :> D(y)) @@ (2 :> D(z))

\* an even whole number with neighbours at distance 1.0 among the doubles:
\* Top - 2, Top - 1 and Top are three doubles in a row
Top == SignificandEnd - 4

\* the leaf boxes the caller builds its input arrays from: their centroids
\* are Top - 2, Top - 1 (of a box that is no point) and Top on the axis 0,
\* and two more that lie off that axis
Boxes ==
    { PointBox(Vec(Top - 2, 0, 0)),
      [xmin |-> Vec(Top - 2, 0, 0), xmax |-> Vec(Top, 0, 0)],
      PointBox(Vec(Top, 0, 0)),
      [xmin |-> Vec(0, 0, 0), xmax |-> Vec(Top, Top, 0)],
      [xmin |-> Vec(0, 0, 0), xmax |-> Vec(2, 2, Top)] }

\* the input arrays of n >= 1 boxes, indexed 0..n-1
InputArrays == UNION { [0..(k - 1) -> Boxes] : k \in 1..MaxN }

\* the input of the example of four boxes with centroids x = 0, 1, 10, 11
ExampleBoxes ==
    { PointBox(Vec(0, 0, 0)), PointBox(Vec(1, 0, 0)), PointBox(Vec(10, 0, 0)),
      PointBox(Vec(11, 0, 0)) }
ExampleArrays == [0..3 -> ExampleBoxes]

\* the boxes_per_leaf arguments tried
LeafSizes == 1..MaxBoxesPerLeaf \cup {DefaultBoxesPerLeaf}

\* what a read past the end of global_index, used as an index into input_box,
\* can produce: a fault, or whatever is found in the memory read as a box
UBOutcomes ==
    { [crash |-> TRUE, box |-> DefaultBox], [crash |-> FALSE, box |-> DefaultBox],
      [crash |-> FALSE, box |-> [xmin |-> Vec(0, 0, 0), xmax |-> Vec(Top, Top, Top)]] }

\* ------------------------------------------------------------ state
VARIABLES
    heap,            \* address -> BoundingBoxTree object (box, index, children)
    n,               \* the caller's number of input boxes
    input_box,       \* the caller's array of input boxes
    depths,          \* the max_depth arguments the caller passes
    last,            \* the last call on the root: its name, its arguments
                     \* and how it ended
    buffers,         \* the working arrays allocated and not deleted
    freedTwice,      \* TRUE once an address was deleted that was not allocated
    splits           \* the locals of every split made for the tree in the heap

vars == <<heap, n, input_box, depths, last, buffers, freedTwice, splits>>

\* the null pointer, and the address of the node the caller owns
NULL == 0
Root == 1

\* a BoundingBoxTree after BoundingBoxTree(void)
NewNode == [box |-> DefaultBox, index |-> <<>>, children |-> <<>>]

\* operator new: the lowest address not in use
NewAddress(node) ==
    CHOOSE a \in 2..(Cardinality(DOMAIN node) + 2) :
        a \notin DOMAIN node /\ \A b \in 2..(a - 1) : b \in DOMAIN node

\* a clear() that deletes the children without running their destructors
DeletedByClearShallow(node, a) == SelectSeq(node[a].children, LAMBDA c : c # NULL)

\* ------------------------------------------------------------ clear
\* the addresses that clear() of the node at a deletes, in the order of the
\* deletes: delete children[i] runs ~BoundingBoxTree, which runs clear()
RECURSIVE DeletedByClear(_, _)
RECURSIVE DeletedFrom(_, _, _)
DeletedFrom(node, ch, i) ==
    IF i >= Len(ch) THEN <<>>
    ELSE IF ch[i + 1] = NULL \/ ch[i + 1] \notin DOMAIN node
         THEN (IF ch[i + 1] = NULL THEN <<>> ELSE <<ch[i + 1]>>)
                  \o DeletedFrom(node, ch, i + 1)
         ELSE DeletedByClear(node, ch[i + 1]) \o <<ch[i + 1]>>
                  \o DeletedFrom(node, ch, i + 1)
DeletedByClear(node, a) == DeletedFrom(node, node[a].children, 0)

Range(s) == { s[k] : k \in DOMAIN s }

\* BoundingBoxTree::clear on the node at a: the heap afterwards
ClearNode(node, a) ==
    LET gone == Range(DeletedByClear(node, a))
    IN  [b \in DOMAIN node \ gone |->
            IF b = a THEN [node[a] EXCEPT !.index = <<>>, !.children = <<>>]
            ELSE node[b]]

\* TRUE when clear() of the node at a deletes an address twice, or one that
\* is not allocated
ClearFreesTwice(node, a) ==
    LET d == DeletedByClear(node, a)
    IN  \/ \E k \in DOMAIN d : d[k] \notin DOMAIN node
        \/ \E j, k \in DOMAIN d : j # k /\ d[j] = d[k]

\* ------------------------------------------------------------ construction
\* a centroid computed without the factor 0.5
CentroidSum(b) == VecAdd(b.xmin, b.xmax)

\* global_centroid[i]=0.5*(input_box[i].xmin+input_box[i].xmax)
Centroid(b) == VecScale(Half, VecAdd(b.xmin, b.xmax))

\* box=input_box[local_index[0]]; then include_box of local_index[1..]
RECURSIVE BoxLoop(_, _, _, _, _, _)
BoxLoop(in, gi, local_index, num_indices, i, box) ==
    IF i >= num_indices THEN box
    ELSE BoxLoop(in, gi, local_index, num_indices, i + 1,
                 IncludeBox(box, in[gi[local_index + i]]))
NodeBox(in, gi, local_index, num_indices) ==
    BoxLoop(in, gi, local_index, num_indices, 1, in[gi[local_index]])

\* index.resize(num_indices); index[i]=local_index[i]
LeafIndex(gi, local_index, num_indices) ==
    [k \in 1..num_indices |-> gi[local_index + k - 1]]

\* centroid_box and mean of the slice: lines 91-97
RECURSIVE CentroidLoop(_, _, _, _, _, _)
CentroidLoop(centroid, gi, local_index, num_indices, i, acc) ==
    IF i >= num_indices THEN acc
    ELSE CentroidLoop(centroid, gi, local_index, num_indices, i + 1,
            [centroid_box |-> IncludePoint(acc.centroid_box,
                                           centroid[gi[local_index + i]]),
             mean |-> VecAdd(acc.mean, centroid[gi[local_index + i]])])
CentroidStats(centroid, gi, local_index, num_indices) ==
    LET acc == CentroidLoop(centroid, gi, local_index, num_indices, 1,
                   [centroid_box |-> PointBox(centroid[gi[local_index]]),
                    mean |-> centroid[gi[local_index]]])
    IN  [centroid_box |-> acc.centroid_box,
         mean |-> VecScale(FRecip(num_indices), acc.mean)]

\* centroid_box.xmax[a]-centroid_box.xmin[a]
Extent(centroid_box, a) == FSub(centroid_box.xmax[a], centroid_box.xmin[a])

\* an axis loop that compares with >=, so that the last of equal extents wins
SelectAxisLast(centroid_box) ==
    LET axis1 == IF Extent(centroid_box, 1) >= Extent(centroid_box, 0)
                 THEN 1 ELSE 0
    IN  IF Extent(centroid_box, 2) >= Extent(centroid_box, axis1)
        THEN 2 ELSE axis1

\* the axis loop of lines 106-111
SelectAxis(centroid_box) ==
    LET axis1 == IF Extent(centroid_box, 1) > Extent(centroid_box, 0)
                 THEN 1 ELSE 0
    IN  IF Extent(centroid_box, 2) > Extent(centroid_box, axis1)
        THEN 2 ELSE axis1

\* the splitting value of lines 115-117
SplitValue(centroid_box, mean, axis) ==
    IF mean[axis] <= centroid_box.xmin[axis]
           \/ mean[axis] >= centroid_box.xmax[axis]
    THEN FMul(Half, FAdd(centroid_box.xmin[axis], centroid_box.xmax[axis]))
    ELSE mean[axis]

\* while((unsigned int)i<num_indices && centroid[local_index[i]][axis]<=split) ++i
RECURSIVE ScanUp(_, _, _, _, _, _, _)
ScanUp(centroid, gi, local_index, num_indices, axis, split, i) ==
    IF i < num_indices /\ centroid[gi[local_index + i]][axis] <= split
    THEN ScanUp(centroid, gi, local_index, num_indices, axis, split, i + 1)
    ELSE i

\* while(j>=0 && centroid[local_index[j]][axis]>split) --j
RECURSIVE ScanDown(_, _, _, _, _, _)
ScanDown(centroid, gi, local_index, axis, split, j) ==
    IF j >= 0 /\ centroid[gi[local_index + j]][axis] > split
    THEN ScanDown(centroid, gi, local_index, axis, split, j - 1)
    ELSE j

\* a swap that loses the second store
SwapLost(gi, x, y) == [gi EXCEPT ![x] = gi[y]]

\* std::swap(local_index[i], local_index[j])
Swap(gi, x, y) == [gi EXCEPT ![x] = gi[y], ![y] = gi[x]]

\* the for(;;) loop of lines 119-133: the array and i when it breaks
RECURSIVE PartitionLoop(_, _, _, _, _, _, _, _)
PartitionLoop(centroid, gi, local_index, num_indices, axis, split, i, j) ==
    LET i1 == ScanUp(centroid, gi, local_index, num_indices, axis, split, i)
        j1 == ScanDown(centroid, gi, local_index, axis, split, j)
    IN  IF i1 < j1
        THEN PartitionLoop(centroid, Swap(gi, local_index + i1, local_index + j1),
                           local_index, num_indices, axis, split, i1 + 1, j1 - 1)
        ELSE [gi |-> gi, i |-> i1]
Partition(centroid, gi, local_index, num_indices, axis, split) ==
    PartitionLoop(centroid, gi, local_index, num_indices, axis, split,
                  0, num_indices - 1)

\* children.resize(2,0)
ResizeChildren(children) ==
    [k \in 1..2 |-> IF k <= Len(children) THEN children[k] ELSE NULL]

\* a base case that accepts one identifier more than boxes_per_leaf
BaseCaseLoose(current_depth, md, num_indices, bpl) ==
    current_depth = md \/ num_indices <= bpl + 1

\* a base case that stops one level below max_depth
BaseCaseDeep(current_depth, md, num_indices, bpl) ==
    current_depth = md + 1 \/ num_indices <= bpl

\* current_depth==max_depth || num_indices<=boxes_per_leaf
BaseCase(current_depth, md, num_indices, bpl) ==
    current_depth = md \/ num_indices <= bpl

\* a construction without the test for equal centroids
CentroidsEqualSkipped(centroid_box) == FALSE

\* centroid_box.xmax==centroid_box.xmin: all the centroids were equal
CentroidsEqual(centroid_box) == centroid_box.xmax = centroid_box.xmin

\* v bound to x in F(x), v evaluated once
Let(v, F(_)) == CHOOSE y \in { F(x) : x \in {v} } : TRUE

\* BoundingBoxTree::construct_recursively on the node at this.  s holds what
\* the call can change: the heap (node), the array global_index (gi), the
\* record of the splits made, and how the run stands (status).  p holds the
\* arguments that every call passes on unchanged.
RECURSIVE ConstructRecursively(_, _, _, _, _, _)
ConstructRecursively(s, this, p, current_depth, num_indices, local_index) ==
    IF s.status # "ok" THEN s
    ELSE IF num_indices = 0
    THEN \* assert(num_indices>0) fails; without it box=input_box[local_index[0]]
         \* reads the element after the slice, and the node becomes a leaf
         IF ~p.ndebug THEN [s EXCEPT !.status = "assert77"]
         ELSE IF local_index >= p.n
         THEN IF p.ub.crash
              THEN [s EXCEPT !.status = "crashed", !.ubRead = TRUE,
                             !.asserted = TRUE]
              ELSE [s EXCEPT !.node[this].box = p.ub.box,
                             !.node[this].index = <<>>, !.ubRead = TRUE,
                             !.asserted = TRUE]
         ELSE [s EXCEPT !.node[this].box = p.input_box[s.gi[local_index]],
                        !.node[this].index = <<>>, !.asserted = TRUE]
    ELSE
    Let(NodeBox(p.input_box, s.gi, local_index, num_indices), LAMBDA box :
    IF BaseCase(current_depth, p.max_depth, num_indices, p.boxes_per_leaf)
    THEN [s EXCEPT !.node[this].box = box,
                   !.node[this].index = LeafIndex(s.gi, local_index, num_indices)]
    ELSE
    Let(CentroidStats(p.centroid, s.gi, local_index, num_indices), LAMBDA st :
    IF CentroidsEqual(st.centroid_box)
    THEN [s EXCEPT !.node[this].box = box,
                   !.node[this].index = LeafIndex(s.gi, local_index, num_indices)]
    ELSE
    Let(SelectAxis(st.centroid_box), LAMBDA axis :
    Let(SplitValue(st.centroid_box, st.mean, axis), LAMBDA split :
    Let(Partition(p.centroid, s.gi, local_index, num_indices, axis, split),
        LAMBDA part :
    Let([s EXCEPT !.node[this].box = box, !.gi = part.gi,
                  !.asserted = (@ \/ ~(part.i < num_indices)),
                  !.splits = @ \cup
                      {[node |-> this, current_depth |-> current_depth,
                        local_index |-> local_index,
                        num_indices |-> num_indices,
                        axis |-> axis, split |-> split, i |-> part.i,
                        before |-> s.gi, after |-> part.gi]}],
        LAMBDA s1 :
    IF ~p.ndebug /\ ~(part.i < num_indices)
    THEN [s1 EXCEPT !.status = "assert134"]
    ELSE
    Let(NewAddress(s1.node), LAMBDA c0 :
    Let([s1 EXCEPT !.node =
            (c0 :> NewNode) @@
            [@ EXCEPT ![this].children = [ResizeChildren(@) EXCEPT ![1] = c0]]],
        LAMBDA s2 :
    Let(ConstructRecursively(s2, c0, p, current_depth + 1, part.i, local_index),
        LAMBDA s3 :
    IF s3.status # "ok" THEN s3
    ELSE
    Let(NewAddress(s3.node), LAMBDA c1 :
    Let([s3 EXCEPT !.node =
            (c1 :> NewNode) @@ [@ EXCEPT ![this].children[2] = c1]],
        LAMBDA s4 :
    ConstructRecursively(s4, c1, p, current_depth + 1, num_indices - part.i,
                         local_index + part.i))))))))))))

\* BoundingBoxTree::construct_from_leaf_boxes on the root, for arguments
\* that pass assert(n>=1 && input_box && boxes_per_leaf>0)
ConstructFromLeafBoxes(node, in, md, bpl, nd, ub) ==
    Let(Cardinality(DOMAIN in), LAMBDA k :
    Let([n |-> k, input_box |-> in,
         centroid |-> [i \in 0..(k - 1) |-> Centroid(in[i])],
         max_depth |-> md, boxes_per_leaf |-> bpl, ndebug |-> nd, ub |-> ub],
        LAMBDA p :
    Let([node |-> ClearNode(node, Root), gi |-> [i \in 0..(k - 1) |-> i],
         splits |-> {}, status |-> "ok", ubRead |-> FALSE, asserted |-> FALSE],
        LAMBDA s0 :
    Let(ConstructRecursively(s0, Root, p, 0, k, 0), LAMBDA s :
        [node |-> s.node, splits |-> s.splits, status |-> s.status,
         ubRead |-> s.ubRead, asserted |-> s.asserted,
         buffers |-> IF s.status = "ok" THEN {}
                     ELSE {"global_index", "global_centroid"}]))))

\* ------------------------------------------------------------ actions
Dead == {"assert77", "assert134", "crashed"}

NoUB == [crash |-> FALSE, box |-> DefaultBox]

\* a call of construct_from_leaf_boxes(n, input_box, md, bpl).  The build of
\* the program either keeps its asserts or defines NDEBUG (the Release build):
\* where a run comes to an assert whose condition is false, both outcomes are
\* taken, the abort and the run that carries on.
Build ==
    /\ last.status \notin Dead
    /\ \E md \in depths, bpl \in LeafSizes :
       \E probe \in {ConstructFromLeafBoxes(heap, input_box, md, bpl, TRUE, NoUB)} :
       \E ndebug \in (IF probe.asserted THEN BOOLEAN ELSE {TRUE}) :
       \E ub \in (IF ndebug /\ probe.ubRead THEN UBOutcomes ELSE {NoUB}) :
       \E r \in {IF ndebug /\ ~probe.ubRead THEN probe
                 ELSE ConstructFromLeafBoxes(heap, input_box, md, bpl, ndebug, ub)} :
           /\ heap' = r.node
           /\ splits' = r.splits
           /\ buffers' = r.buffers
           /\ last' = [op |-> "construct_from_leaf_boxes", max_depth |-> md,
                        boxes_per_leaf |-> bpl,
                        status |-> IF r.status = "ok" THEN "returned" ELSE r.status]
           /\ freedTwice' = (freedTwice \/ ClearFreesTwice(heap, Root))
    /\ UNCHANGED <<n, input_box, depths>>

\* a call of clear() on the root
Clear ==
    /\ last.status \notin Dead
    /\ heap' = ClearNode(heap, Root)
    /\ last' = [op |-> "clear", status |-> "returned"]
    /\ splits' = {}
    /\ freedTwice' = (freedTwice \/ ClearFreesTwice(heap, Root))
    /\ UNCHANGED <<n, input_box, depths, buffers>>

InitCommon ==
    /\ heap = (Root :> NewNode)
    /\ last = [op |-> "BoundingBoxTree", status |-> "returned"]
    /\ buffers = {}
    /\ freedTwice = FALSE
    /\ splits = {}

Init ==
    /\ input_box \in InputArrays
    /\ depths = 0..MaxDepthArg
    /\ n = Cardinality(DOMAIN input_box)
    /\ InitCommon

InitExample ==
    /\ input_box \in ExampleArrays
    /\ depths = 0..MaxDepthArg \cup {DefaultMaxDepth}
    /\ n = Cardinality(DOMAIN input_box)
    /\ InitCommon

Next == Build \/ Clear

Spec == Init /\ [][Next]_vars

SpecExample == InitExample /\ [][Next]_vars

\* ------------------------------------------------------------ the tree in the heap
Returned == last.status = "returned"
Built == last.op = "construct_from_leaf_boxes" /\ Returned

\* the children of the node at a that are not null
Children(a) == Range(heap[a].children) \ {NULL}

\* the nodes reached from a through children, each with its depth below a
RECURSIVE Placed(_, _)
Placed(a, d) == {<<a, d>>} \cup UNION { Placed(c, d + 1) : c \in Children(a) }
Subtree(a) == { q[1] : q \in Placed(a, 0) }

IsLeaf(a) == Len(heap[a].children) = 0

\* the index arrays of the leaves below a, one after the other
RECURSIVE LeafIds(_)
RECURSIVE LeafIdsFrom(_, _)
LeafIdsFrom(ch, k) ==
    IF k > Len(ch) THEN <<>>
    ELSE (IF ch[k] = NULL THEN <<>> ELSE LeafIds(ch[k])) \o LeafIdsFrom(ch, k + 1)
LeafIds(a) == IF IsLeaf(a) THEN heap[a].index ELSE LeafIdsFrom(heap[a].children, 1)

MinOf(T) == CHOOSE x \in T : \A y \in T : x <= y
MaxOf(T) == CHOOSE x \in T : \A y \in T : x >= y

\* the union of the input boxes with identifiers in S: per axis the least
\* minimum and the greatest maximum
BoxUnion(S) ==
    [xmin |-> [a \in Axes |-> MinOf({ input_box[i].xmin[a] : i \in S })],
     xmax |-> [a \in Axes |-> MaxOf({ input_box[i].xmax[a] : i \in S })]]

Encloses(b, c) ==
    \A a \in Axes : b.xmin[a] <= c.xmin[a] /\ c.xmax[a] <= b.xmax[a]

Ids == 0..(n - 1)

\* the centroids of the identifiers in S are one point
Coincide(S) ==
    \A i, j \in S : Centroid(input_box[i]) = Centroid(input_box[j])

\* the identity array 0, 1, .., n-1 as an index vector
AllIds == [k \in 1..n |-> k - 1]

\* ------------------------------------------------------------ claims
\* C1: after construct_from_leaf_boxes returns, the index arrays of the
\* leaves, taken together, hold each identifier 0..n-1 exactly once.
Coverage ==
    Built => /\ Len(LeafIds(Root)) = n
             /\ Range(LeafIds(Root)) = Ids

CoverageWitness ==
    /\ Built
    /\ n = 3
    /\ Cardinality({ a \in Subtree(Root) : IsLeaf(a) }) = 3
    /\ \A a \in Subtree(Root) : IsLeaf(a) => Len(heap[a].index) = 1

\* C2: after a build every node's box is the union of the input boxes whose
\* identifiers are in the leaves below it; so the root's box encloses every
\* input box and an internal node's box is the union of its children's boxes.
BoxIsUnion ==
    Built =>
        /\ \A a \in Subtree(Root) :
               /\ Range(LeafIds(a)) # {}
               /\ heap[a].box = BoxUnion(Range(LeafIds(a)))
        /\ \A i \in Ids : Encloses(heap[Root].box, input_box[i])
        /\ \A a \in Subtree(Root) :
               ~IsLeaf(a) =>
                   heap[a].box = IncludeBox(heap[heap[a].children[1]].box,
                                            heap[heap[a].children[2]].box)

\* C3, as claimed: every leaf holds at most boxes_per_leaf identifiers or
\* lies at depth max_depth.
LeafBound ==
    Built =>
        \A q \in Placed(Root, 0) :
            IsLeaf(q[1]) =>
                \/ Len(heap[q[1]].index) <= last.boxes_per_leaf
                \/ q[2] = last.max_depth

\* C3, amended: every leaf holds at most boxes_per_leaf identifiers, or lies
\* at depth max_depth, or holds identifiers whose centroids are all equal.
LeafBoundOrCoincident ==
    Built =>
        \A q \in Placed(Root, 0) :
            IsLeaf(q[1]) =>
                \/ Len(heap[q[1]].index) <= last.boxes_per_leaf
                \/ q[2] = last.max_depth
                \/ Coincide(Range(heap[q[1]].index))

LeafBoundWitness ==
    /\ Built
    /\ \E q \in Placed(Root, 0) :
           /\ IsLeaf(q[1])
           /\ Len(heap[q[1]].index) > last.boxes_per_leaf
           /\ q[2] < last.max_depth
           /\ Coincide(Range(heap[q[1]].index))

\* C4: no node lies deeper than max_depth, the root being at depth 0; with
\* max_depth = 0 the tree is one leaf that holds all n identifiers.
DepthBound ==
    Built =>
        /\ \A q \in Placed(Root, 0) : q[2] <= last.max_depth
        /\ last.max_depth = 0 => IsLeaf(Root) /\ heap[Root].index = AllIds

DepthBoundWitness ==
    /\ Built
    /\ last.max_depth >= 1
    /\ \E q \in Placed(Root, 0) :
           /\ IsLeaf(q[1])
           /\ q[2] = last.max_depth
           /\ Len(heap[q[1]].index) > last.boxes_per_leaf
           /\ ~Coincide(Range(heap[q[1]].index))

\* C5: after any sequence of construct_from_leaf_boxes and clear every node is
\* a leaf with no children and a non-empty index array or an internal node
\* with two children and an empty index array; no node has one child; after
\* clear the root has no children and no indices.
BinaryShape ==
    Returned =>
        /\ last.op = "construct_from_leaf_boxes" =>
               \A a \in Subtree(Root) :
                   \/ Len(heap[a].children) = 0 /\ Len(heap[a].index) > 0
                   \/ /\ Len(heap[a].children) = 2
                      /\ NULL \notin Range(heap[a].children)
                      /\ Len(heap[a].index) = 0
        /\ \A a \in Subtree(Root) : Len(heap[a].children) # 1
        /\ last.op = "clear" =>
               Len(heap[Root].children) = 0 /\ Len(heap[Root].index) = 0

\* C6: when all the centroids are one point (n = 1, or n equal boxes) the
\* root is a leaf that holds 0..n-1, whatever max_depth and boxes_per_leaf.
Degenerate ==
    (Built /\ Coincide(Ids)) => IsLeaf(Root) /\ heap[Root].index = AllIds

DegenerateWitness ==
    /\ Built
    /\ n >= 2
    /\ Coincide(Ids)
    /\ last.boxes_per_leaf < n
    /\ last.max_depth > 0
    /\ IsLeaf(Root)

\* the example: point boxes at x = 0, 1, 10, 11 for the identifiers 0, 1, 2, 3,
\* built with boxes_per_leaf = 1 and max_depth = 30
ExampleX == <<0, 1, 10, 11>>
ExampleBuilt ==
    /\ Built
    /\ n = 4
    /\ \A i \in 0..3 : input_box[i] = PointBox(Vec(ExampleX[i + 1], 0, 0))
    /\ last.max_depth = DefaultMaxDepth
    /\ last.boxes_per_leaf = DefaultBoxesPerLeaf

\* the node at a is a leaf whose index array is ix
LeafWith(a, ix) == IsLeaf(a) /\ heap[a].index = ix

\* the root is split on axis 0 at 5.5
RootSplitAtMean ==
    /\ ~IsLeaf(Root)
    /\ \E r \in splits : r.node = Root /\ r.axis = 0 /\ r.split = 11 * Half

\* C7, as claimed: the root splits on axis 0 at 5.5, the left child is a leaf
\* holding {0, 1}, the right child holds {2, 3} and splits into {2} and {3}.
ExampleTree ==
    ExampleBuilt =>
        /\ RootSplitAtMean
        /\ LeafWith(heap[Root].children[1], <<0, 1>>)
        /\ ~IsLeaf(heap[Root].children[2])
        /\ LeafWith(heap[heap[Root].children[2]].children[1], <<2>>)
        /\ LeafWith(heap[heap[Root].children[2]].children[2], <<3>>)

\* C7, amended: the root splits on axis 0 at 5.5, the left child holds {0, 1}
\* and splits into the leaves {0} and {1}, the right child holds {2, 3} and
\* splits into the leaves {2} and {3}.
ExampleTreeFull ==
    ExampleBuilt =>
        /\ RootSplitAtMean
        /\ ~IsLeaf(heap[Root].children[1])
        /\ LeafWith(heap[heap[Root].children[1]].children[1], <<0>>)
        /\ LeafWith(heap[heap[Root].children[1]].children[2], <<1>>)
        /\ ~IsLeaf(heap[Root].children[2])
        /\ LeafWith(heap[heap[Root].children[2]].children[1], <<2>>)
        /\ LeafWith(heap[heap[Root].children[2]].children[2], <<3>>)

ExampleWitness == ExampleBuilt /\ Cardinality(DOMAIN heap) = 7

\* C8: after any sequence of construct_from_leaf_boxes and clear the child
\* nodes allocated and not freed are the nodes reached from the root, nothing
\* was freed twice, clear leaves no child, and the working arrays of a build
\* are freed when it returns.
NoLeak ==
    Returned =>
        /\ DOMAIN heap = Subtree(Root)
        /\ ~freedTwice
        /\ buffers = {}
        /\ last.op = "clear" =>
               DOMAIN heap = {Root} /\ Len(heap[Root].children) = 0

NoLeakWitness ==
    /\ Built
    /\ Cardinality(DOMAIN heap) >= 5
    /\ Cardinality(Subtree(Root)) >= 5

\* C9: in every split the boundary i the partition loop leaves satisfies
\* 0 < i < count, so that neither assert(i < num_indices) nor the
\* assert(num_indices > 0) of a recursive call fails.
SplitsProper ==
    /\ \A r \in splits : 0 < r.i /\ r.i < r.num_indices
    /\ last.status \notin {"assert77", "assert134"}

\* the positions of the slice a split works on
SlicePositions(r) == r.local_index..(r.local_index + r.num_indices - 1)

\* the extent on axis a of the centroids of the slice of the split r
SliceExtent(r, a) ==
    FSub(MaxOf({ Centroid(input_box[r.before[k]])[a] : k \in SlicePositions(r) }),
         MinOf({ Centroid(input_box[r.before[k]])[a] : k \in SlicePositions(r) }))

\* C10: the split axis is the lowest axis of largest centroid extent; the
\* partition loop permutes the slice and nothing else, and leaves the
\* identifiers with centroid <= split at [0, i) and those with centroid >
\* split at [i, count); so the left subtree holds centroids <= split and the
\* right subtree centroids > split.
PartitionCorrect ==
    /\ \A r \in splits :
           /\ \A a \in Axes : SliceExtent(r, a) <= SliceExtent(r, r.axis)
           /\ \A a \in Axes : a < r.axis => SliceExtent(r, a) < SliceExtent(r, r.axis)
           /\ \A k \in DOMAIN r.before \ SlicePositions(r) : r.after[k] = r.before[k]
           /\ { r.after[k] : k \in SlicePositions(r) }
                  = { r.before[k] : k \in SlicePositions(r) }
           /\ \A j, k \in SlicePositions(r) : j # k => r.after[j] # r.after[k]
           /\ \A k \in SlicePositions(r) :
                  (k - r.local_index < r.i)
                      <=> (Centroid(input_box[r.after[k]])[r.axis] <= r.split)
    /\ Built =>
           \A r \in splits :
               /\ \A id \in Range(LeafIds(heap[r.node].children[1])) :
                      Centroid(input_box[id])[r.axis] <= r.split
               /\ \A id \in Range(LeafIds(heap[r.node].children[2])) :
                      Centroid(input_box[id])[r.axis] > r.split

PartitionWitness ==
    /\ Built
    /\ \E r \in splits :
           /\ r.before # r.after
           /\ r.axis = 0
           /\ SliceExtent(r, 1) = SliceExtent(r, 0)
           /\ r.i = 1
           /\ r.num_indices = 2

====
